---- MODULE Spec2Model ----
(***************************************************************************)
(* insightsim: tagged time-series samples in an SQLite store.              *)
(*                                                                         *)
(* The model covers the Sample store and the Tag registry (database        *)
(* package), the feed loader (Loader.LoadFromReader), the CSV import       *)
(* (UploadService.ImportFromCSV), tag deletion and creation (TagsService)  *)
(* and the synthetic generator (GeneratorHandler.Handle and                *)
(* Generator.GenerateDummyData).                                           *)
(*                                                                         *)
(* Storage is database/sql over SQLite in its default rollback-journal     *)
(* mode: a transaction reads the committed rows until its first write,     *)
(* holds a SHARED lock from its first read, a RESERVED lock from its first *)
(* write, and needs every other reader gone to commit.  A statement that   *)
(* finds the database locked waits (the step is not yet enabled) or gives  *)
(* up with an error (the Fail steps, which also stand for I/O errors).     *)
(*                                                                         *)
(* Time is counted in units of 1/TimeGrain minute; values are integers on  *)
(* the grid of the real numbers the code computes with.                    *)
(***************************************************************************)
EXTENDS Integers, Sequences, FiniteSets, TLC

\* ---------------------------------------------------------------- bounds
MaxTime == 5        \* latest instant a request or a file may name
TimeGrain == 2      \* time units per minute
BatchSize == 2      \* rows per batch commit (the code's 10000, scaled down)

Tags == {"A", "B"}
TagOrder == <<"A", "B">>               \* ORDER BY tag
Runs == {"g1", "g2"}                   \* generate requests
Procs == Runs \cup {"loader", "csv"}   \* holders of a transaction
Qualities == {2, 3, 4}

\* ------------------------------------------------------------- constants
GenQuality == 3
importQuality == 3

VARIABLES
  rows,     \* committed rows of insight_raws
  tags,     \* committed rows of the tags table
  txn,      \* per process: its open transaction, lock and working copy
  gen,      \* per generate request: the handler's and generator's locals
  events,   \* per generate request: the NDJSON events written so far
  gh,       \* per generate request: history of what the run has done
  ld,       \* the feed loader: LoadFromReader's locals
  csv,      \* the CSV import: ImportFromCSV's locals
  dt,       \* the tag deletion: DeleteTagData's position
  ct,       \* the tag creation: the request and its response
  qry       \* the query: the request, its response, what it read

svc == <<ld, csv, dt, ct, qry>>
vars == <<rows, tags, txn, gen, events, gh, ld, csv, dt, ct, qry>>

\* ------------------------------------------------------------ the store
Row(t, ts, v, q) == [tag |-> t, ts |-> ts, value |-> v, quality |-> q]

\* SELECT ... WHERE tag = ? AND timestamp = ?
Lookup(S, t, ts) == {r \in S : r.tag = t /\ r.ts = ts}

\* variant: a table without the UNIQUE constraint
ConflictRowsNoUnique(S, row) == {}

\* UNIQUE(tag, timestamp): the rows an insert of `row` conflicts with
ConflictRows(S, row) == Lookup(S, row.tag, row.ts)

\* INSERT INTO insight_raws: fails on a conflict
CanInsert(S, row) == ConflictRows(S, row) = {}
InsertRow(S, row) == S \cup {row}

\* variant: a conflicting row of higher quality is kept
InsertOrReplaceKeepsBetter(S, row) ==
  IF \E e \in Lookup(S, row.tag, row.ts) : e.quality > row.quality THEN S
  ELSE (S \ Lookup(S, row.tag, row.ts)) \cup {row}

\* INSERT OR REPLACE INTO insight_raws: deletes the conflicting rows first
InsertOrReplace(S, row) == (S \ ConflictRows(S, row)) \cup {row}

\* variant: the UPDATE without the timestamp in its WHERE clause
UpdateRowWholeTag(S, row) == {IF r.tag = row.tag THEN row ELSE r : r \in S}

\* UPDATE insight_raws SET value = ?, quality = ? WHERE tag = ? AND timestamp = ?
UpdateRow(S, row) ==
  {IF r.tag = row.tag /\ r.ts = row.ts THEN row ELSE r : r \in S}

\* variant: a delete that removes nothing
DeleteAllRecordsKeeps(S) == S

\* DELETE FROM insight_raws
DeleteAllRecords(S) == {}

\* DELETE FROM insight_raws WHERE tag = ?
DeleteTagRecords(S, t) == {r \in S : r.tag # t}

TagRow(t, createdAt, updatedAt, src) ==
  [tag |-> t, created_at |-> createdAt, updated_at |-> updatedAt, source |-> src]
TagNames(T) == {x.tag : x \in T}

\* variant: INSERT OR REPLACE INTO tags
InsertTagOrReplace(T, t, createdAt, updatedAt, src) ==
  {x \in T : x.tag # t} \cup {TagRow(t, createdAt, updatedAt, src)}

\* INSERT OR IGNORE INTO tags
InsertTagIfNotExists(T, t, createdAt, updatedAt, src) ==
  IF t \in TagNames(T) THEN T ELSE T \cup {TagRow(t, createdAt, updatedAt, src)}

\* variant: the tags table has no primary key
CanInsertTagAlways(T, t) == TRUE

\* INSERT INTO tags: fails on the primary key
CanInsertTag(T, t) == t \notin TagNames(T)

\* INSERT INTO tags
InsertTag(T, t, createdAt, updatedAt, src) ==
  T \cup {TagRow(t, createdAt, updatedAt, src)}

\* variant: DELETE FROM tags without the WHERE clause
DeleteTagAll(T, t) == {}

\* DELETE FROM tags WHERE tag = ?
DeleteTag(T, t) == {x \in T : x.tag # t}

\* SELECT tag FROM tags ORDER BY tag
ListTagNamesFromTagsTable(T) == SelectSeq(TagOrder, LAMBDA t : t \in TagNames(T))

\* ------------------------------------------------- transactions and locks
NoTx == [open |-> FALSE, lock |-> "none", work |-> {}]
OpenTx == [open |-> TRUE, lock |-> "none", work |-> {}]

Holding(p) == txn[p].lock \in {"shared", "reserved"}

\* RESERVED: one writer at a time
CanWrite(p) == \A q \in Procs \ {p} : txn[q].lock # "reserved"

\* EXCLUSIVE for the commit of a writer: no other reader
CanCommit(p) ==
  txn[p].lock = "reserved" => \A q \in Procs \ {p} : ~Holding(q)

\* a statement outside any transaction that writes
CanAutoWrite == \A q \in Procs : ~Holding(q)

\* the rows a statement of p's transaction sees
TxView(p) == IF txn[p].lock = "reserved" THEN txn[p].work ELSE rows

\* p's transaction after a statement that read only
TxRead(p) ==
  IF txn[p].lock = "none" THEN [txn[p] EXCEPT !.lock = "shared"] ELSE txn[p]

\* p's transaction after a statement that left S as its working copy
TxWrite(p, S) == [open |-> TRUE, lock |-> "reserved", work |-> S]

\* the committed rows after p commits
Committed(p) == IF txn[p].lock = "reserved" THEN txn[p].work ELSE rows

\* --------------------------------------------------- generator: helpers
\* the frequency names of a request, in minutes
IntervalMinutes(frequency) ==
  CASE frequency = "5min" -> 5
    [] frequency = "15min" -> 15
    [] frequency = "30min" -> 30
    [] frequency = "1hour" -> 60
    [] OTHER -> 1

\* a request's bound when it gives one, the configured one otherwise
Effective(given, configured) ==
  IF given = {} THEN configured ELSE CHOOSE v \in given : TRUE

\* the handler's check of the effective value range
RejectsRange(lo, hi) == lo >= hi

\* time.Parse of a literal: {} when it is malformed, {t} otherwise
Parses(literal) == literal # {}
Parsed(literal) == CHOOSE t \in literal : TRUE

\* variant: no check of the time range
BadTimeRangeNever(startTime, endTime) == FALSE

\* startTime.After(endTime) || startTime.Equal(endTime)
BadTimeRange(startTime, endTime) == startTime > endTime \/ startTime = endTime

\* variant: the range without its last minute
TotalMinutesExclusive(startTime, endTime) == (endTime - startTime) \div TimeGrain

\* int(endTime.Sub(startTime).Minutes()) + 1
TotalMinutes(startTime, endTime) == ((endTime - startTime) \div TimeGrain) + 1

\* variant: a single tag is taken as given
ResolveTagsUnchecked(T, tag) ==
  IF tag = "" THEN {ListTagNamesFromTagsTable(T)} ELSE {<<tag>>}

\* the tags a run generates for: the registry's names, or the one named tag
\* ({} stands for "tag not found")
ResolveTags(T, tag) ==
  IF tag = "" THEN {ListTagNamesFromTagsTable(T)}
  ELSE IF tag \in TagNames(T) THEN {<<tag>>} ELSE {}

\* the rows left by the delete step of a run
DeleteScope(S, tag) ==
  IF tag = "" THEN DeleteAllRecords(S) ELSE DeleteTagRecords(S, tag)

\* the loop's step from one tick to the next, in minutes
LoopStep(g) == g.intervalMinutes

ValueGrid == 0..8
Min(a, b) == IF a < b THEN a ELSE b
Max(a, b) == IF a > b THEN a ELSE b

\* minValue + rand.Float64()*(maxValue-minValue)
UniformValues(lo, hi) == lo..hi

\* currentValue * (1 + changePercent), changePercent within -0.3 .. 0.3
StepValues(c) ==
  {n \in ValueGrid : Min(7 * c, 13 * c) <= 10 * n /\ 10 * n <= Max(7 * c, 13 * c)}

\* variant: the lower bound only
ClampLowOnly(v, lo, hi) == IF v < lo THEN lo ELSE v

\* the two ifs that pin a value to [minValue, maxValue]
Clamp(v, lo, hi) ==
  LET a == IF v < lo THEN lo ELSE v
  IN IF a > hi THEN hi ELSE a

\* the value drawn for a tick, before it is clamped
RawValues(g) ==
  IF g.useSequential THEN StepValues(g.currentValue)
  ELSE UniformValues(g.minValue, g.maxValue)

\* the base value a tag starts from (currentValue is 0 when not sequential)
BaseValues(g) ==
  IF g.useSequential THEN UniformValues(g.minValue, g.maxValue) ELSE {0}

\* ---------------------------------------------------- generator: events
streamEvent(ev, t, n, c, k, msg) ==
  [event |-> ev, tag |-> t, records |-> n, count |-> c, tags_count |-> k,
   message |-> msg]

onTagComplete(t, n) == streamEvent("tag_complete", t, n, 0, 0, "")
ErrorEvent(msg) == streamEvent("error", "", 0, 0, 0, msg)
DoneEvent(c, k) == streamEvent("done", "", 0, c, k, "")

\* ----------------------------------------------------- generator: state
IdleGen ==
  [pc |-> "idle", tag |-> "", minValue |-> 0, maxValue |-> 0,
   useSequential |-> FALSE, start |-> {}, end |-> {}, intervalMinutes |-> 1,
   startTime |-> 0, totalMinutes |-> 0, tagList |-> <<>>, ti |-> 0,
   minute |-> 0, currentValue |-> 0, totalRecords |-> 0, tagRecords |-> 0,
   deferred |-> FALSE]

NoHistory ==
  [pre |-> {}, deletes |-> 0, batches |-> 0, committed |-> {}, batch |-> {},
   lost |-> {}, draws |-> {}, skipped |-> 0, goneAt |-> -1, undone |-> {}]

\* the phase of the run's state machine a program position belongs to
Phase(pc) ==
  CASE pc \in {"begin", "tick", "commit", "rebegin", "final"} -> "generating"
    [] OTHER -> pc

\* --------------------------------------------------- generator: actions
\* the caller of run r is still reading the stream (goneAt is the number of
\* rows the run had written when the caller went away)
Listening(r) == gh[r].goneAt < 0

\* variant: the run stops once its caller is gone
StopsOnDisconnectChecked(r) == ~Listening(r)

\* the run is stopped because its caller is gone: writeEvent drops the error
\* of w.Write and GenerateDummyData is given no context, so never
StopsOnDisconnect(r) == FALSE

\* the caller closes the connection while the run is under way
CallerLeaves(r) ==
  /\ gen[r].pc \notin {"idle", "rejected", "done", "error"}
  /\ Listening(r)
  /\ gh' = [gh EXCEPT ![r].goneAt = gen[r].totalRecords]
  /\ UNCHANGED <<rows, tags, txn, gen, events, svc>>

\* GeneratorHandler.Handle up to the call of GenerateDummyData: the request
\* is decoded, the effective range is checked, the stream is opened.
GenRequest(r, req) ==
  LET lo == Effective(req.minValue, req.cfgMin)
      hi == Effective(req.maxValue, req.cfgMax)
  IN /\ gen[r].pc = "idle"
     /\ gen' = [gen EXCEPT ![r] =
          IF RejectsRange(lo, hi)
          THEN [IdleGen EXCEPT !.pc = "rejected", !.tag = req.tag,
                               !.minValue = lo, !.maxValue = hi]
          ELSE [IdleGen EXCEPT !.pc = "validating", !.tag = req.tag,
                               !.minValue = lo, !.maxValue = hi,
                               !.useSequential = req.useSequential,
                               !.start = req.start, !.end = req.end,
                               !.intervalMinutes = IntervalMinutes(req.frequency)]]
     /\ gh' = [gh EXCEPT ![r] = [NoHistory EXCEPT !.pre = rows]]
     /\ UNCHANGED <<rows, tags, txn, events, svc>>

\* variant: no return after the error event
HandlerEventsNoReturn(msg, c, k) ==
  IF msg # "" THEN <<ErrorEvent(msg), DoneEvent(c, k)>> ELSE <<DoneEvent(c, k)>>

\* what the handler writes when GenerateDummyData has returned (msg is the
\* error's message, "" for a nil error)
HandlerEvents(msg, c, k) ==
  IF msg # "" THEN <<ErrorEvent(msg)>> ELSE <<DoneEvent(c, k)>>

\* variant: the open transaction is committed on return
RowsAfterReturnFlushed(r) == Committed(r)

\* the committed rows once the run has returned an error: nothing of the
\* transaction it was in is committed
RowsAfterReturn(r) == rows

\* the run returns err and the handler writes the error event.  The deferred
\* tx.Rollback() was bound to the first transaction: `leftOpen` is what
\* becomes of the run's current transaction.
GenReturnError(r, msg, leftOpen) ==
  /\ gen' = [gen EXCEPT ![r].pc = "error"]
  /\ events' = [events EXCEPT ![r] = @ \o HandlerEvents(msg, 0, 0)]
  /\ txn' = [txn EXCEPT ![r] = leftOpen]
  /\ rows' = RowsAfterReturn(r)
  /\ gh' = [gh EXCEPT ![r].lost = @ \cup gh[r].batch, ![r].batch = {}]
  /\ UNCHANGED <<tags, svc>>

\* the error of a single-tag request whose tag has no row in the registry
TagNotFound(tag) == "tag '" \o tag \o "' not found in tag list"

\* GenerateDummyData: parse the time range, check it, resolve the tags
GenValidate(r) ==
  LET g == gen[r] IN
  /\ g.pc = "validating"
  /\ ~StopsOnDisconnect(r)
  /\ IF ~Parses(g.start) \/ ~Parses(g.end)
     THEN GenReturnError(r, "invalid time format", NoTx)
     ELSE IF BadTimeRange(Parsed(g.start), Parsed(g.end))
     THEN GenReturnError(r, "invalid time range", NoTx)
     ELSE IF ResolveTags(tags, g.tag) = {}
     THEN GenReturnError(r, TagNotFound(g.tag), NoTx)
     ELSE /\ gen' = [gen EXCEPT ![r] =
               [g EXCEPT !.pc = "deleting",
                         !.startTime = Parsed(g.start),
                         !.totalMinutes = TotalMinutes(Parsed(g.start), Parsed(g.end)),
                         !.tagList = CHOOSE l \in ResolveTags(tags, g.tag) : TRUE]]
          /\ UNCHANGED <<rows, tags, txn, events, gh, svc>>

\* variant: the run goes on without deleting
GenDeleteSkipped(r) ==
  /\ gen[r].pc = "deleting"
  /\ gen' = [gen EXCEPT ![r].pc = "begin"]
  /\ UNCHANGED <<rows, tags, txn, events, gh, svc>>

\* g.db.DeleteAllRecords() (DeleteTagRecords for a single tag), on its own
\* connection, outside any transaction
GenDelete(r) ==
  /\ gen[r].pc = "deleting"
  /\ CanAutoWrite
  /\ ~StopsOnDisconnect(r)
  /\ rows' = DeleteScope(rows, gen[r].tag)
  /\ gen' = [gen EXCEPT ![r].pc = "begin"]
  /\ gh' = [gh EXCEPT ![r].deletes = @ + 1,
                      ![r].undone = (rows \ rows') \cap
                                    UNION {gh[q].committed : q \in Runs \ {r}}]
  /\ UNCHANGED <<tags, txn, events, svc>>

\* the position of the loops when the first tag starts
FirstPos(g, base) ==
  IF g.tagList = <<>> THEN [g EXCEPT !.pc = "final"]
  ELSE [g EXCEPT !.pc = "tick", !.ti = 1, !.minute = 0, !.tagRecords = 0,
                 !.currentValue = base]

\* conn.Begin(), defer tx.Rollback(), the three Prepare calls
GenBegin(r) ==
  /\ gen[r].pc = "begin"
  /\ ~StopsOnDisconnect(r)
  /\ txn' = [txn EXCEPT ![r] = OpenTx]
  /\ \E base \in BaseValues(gen[r]) :
       gen' = [gen EXCEPT ![r] = FirstPos([gen[r] EXCEPT !.deferred = TRUE], base)]
  /\ UNCHANGED <<rows, tags, events, gh, svc>>

\* the end of one iteration of the minute loop: the next tick of the tag,
\* or the tag is complete (its notification is written) and the next tag
\* starts, or the loops are over
NextPos(g, base) ==
  IF g.minute + LoopStep(g) < g.totalMinutes
  THEN [g EXCEPT !.pc = "tick", !.minute = @ + LoopStep(g)]
  ELSE IF g.ti < Len(g.tagList)
  THEN [g EXCEPT !.pc = "tick", !.ti = @ + 1, !.minute = 0, !.tagRecords = 0,
                 !.currentValue = base]
  ELSE [g EXCEPT !.pc = "final"]

TagDone(g) == ~(g.minute + LoopStep(g) < g.totalMinutes)

\* variant: the notification carries the run's running total
TagCompleteCountTotal(g) == g.totalRecords

\* the row count the run hands to onTagComplete when a tag's loop is over:
\* the rows written for that tag
TagCompleteCount(g) == g.tagRecords

Continue(r, g) ==
  /\ \E base \in BaseValues(g) : gen' = [gen EXCEPT ![r] = NextPos(g, base)]
  /\ events' = [events EXCEPT ![r] =
       IF TagDone(g) THEN Append(@, onTagComplete(g.tagList[g.ti], TagCompleteCount(g)))
       ELSE @]

\* variant: the existing row is always overwritten
GenKeepsNever(q, existingQuality) == FALSE

\* the generator leaves an existing row alone: not (quality >= existingQuality)
GenKeeps(q, existingQuality) == ~(q >= existingQuality)

\* variant: the walk starts again from the base value at every tick
NextCurrentKept(g, newValue) == g.currentValue

\* if useSequential { currentValue = newValue }
NextCurrent(g, newValue) == IF g.useSequential THEN newValue ELSE g.currentValue

\* totalRecords%10000 == 0
BatchFull(totalRecords) == totalRecords % BatchSize = 0

\* one iteration of the minute loop up to the batch test: draw the value,
\* clamp it, look the row up, insert or update or skip
GenTick(r) ==
  LET g == gen[r]
      t == g.tagList[g.ti]
      ts == g.startTime + g.minute * TimeGrain
      view == TxView(r)
      existing == Lookup(view, t, ts)
  IN
  /\ g.pc = "tick"
  /\ ~StopsOnDisconnect(r)
  /\ \E raw \in RawValues(g) :
       LET newValue == Clamp(raw, g.minValue, g.maxValue)
           row == Row(t, ts, newValue, GenQuality)
           keep == \E e \in existing : GenKeeps(GenQuality, e.quality)
           n == IF keep THEN 0 ELSE 1
           g1 == [g EXCEPT !.totalRecords = @ + n, !.tagRecords = @ + n,
                           !.currentValue = NextCurrent(g, newValue)]
       IN /\ IF existing = {}
             THEN CanWrite(r) /\ CanInsert(view, row)
                  /\ txn' = [txn EXCEPT ![r] = TxWrite(r, InsertRow(view, row))]
             ELSE IF keep
             THEN txn' = [txn EXCEPT ![r] = TxRead(r)]
             ELSE CanWrite(r)
                  /\ txn' = [txn EXCEPT ![r] = TxWrite(r, UpdateRow(view, row))]
          /\ gh' = [gh EXCEPT ![r].batch = IF keep THEN @ ELSE @ \cup {row},
                              ![r].draws = @ \cup {<<raw, newValue>>},
                              ![r].skipped = @ + (1 - n)]
          /\ IF BatchFull(g1.totalRecords)
             THEN /\ gen' = [gen EXCEPT ![r] = [g1 EXCEPT !.pc = "commit"]]
                  /\ UNCHANGED events
             ELSE Continue(r, g1)
  /\ UNCHANGED <<rows, tags, svc>>

\* tx.Commit() of a full batch
GenCommit(r) ==
  /\ gen[r].pc = "commit"
  /\ ~StopsOnDisconnect(r)
  /\ CanCommit(r)
  /\ rows' = Committed(r)
  /\ txn' = [txn EXCEPT ![r] = NoTx]
  /\ gen' = [gen EXCEPT ![r].pc = "rebegin", ![r].deferred = FALSE]
  /\ gh' = [gh EXCEPT ![r].batches = @ + 1,
                      ![r].committed = @ \cup gh[r].batch,
                      ![r].batch = {}]
  /\ UNCHANGED <<tags, events, svc>>

\* tx, err = conn.Begin() and the three Prepare calls, then the loop goes on
GenRebegin(r) ==
  /\ gen[r].pc = "rebegin"
  /\ ~StopsOnDisconnect(r)
  /\ txn' = [txn EXCEPT ![r] = OpenTx]
  /\ Continue(r, gen[r])
  /\ UNCHANGED <<rows, tags, gh, svc>>

\* the final tx.Commit(), the return, the handler's done event
GenFinal(r) ==
  /\ gen[r].pc = "final"
  /\ ~StopsOnDisconnect(r)
  /\ CanCommit(r)
  /\ rows' = Committed(r)
  /\ txn' = [txn EXCEPT ![r] = NoTx]
  /\ gen' = [gen EXCEPT ![r].pc = "done"]
  /\ events' = [events EXCEPT ![r] =
       @ \o HandlerEvents("", gen[r].totalRecords, Len(gen[r].tagList))]
  /\ gh' = [gh EXCEPT ![r].committed = @ \cup gh[r].batch, ![r].batch = {}]
  /\ UNCHANGED <<tags, svc>>

\* the run's current transaction after a statement at `pc` failed and the
\* function returned: the deferred Rollback ends the first transaction only;
\* a failed Commit ends its transaction; a transaction begun after a batch
\* commit stays as it is (readDone: the failing statement came after a read)
LeftOpen(r, pc, deferred, readDone) ==
  IF pc \in {"tick", "rebegin"} /\ ~deferred
  THEN IF pc = "rebegin" THEN OpenTx
       ELSE IF readDone THEN TxRead(r) ELSE txn[r]
  ELSE NoTx

\* a storage statement of the run fails (locked database, I/O error)
GenFail(r) ==
  /\ gen[r].pc \in {"deleting", "begin", "tick", "commit", "rebegin", "final"}
  /\ \E readDone \in BOOLEAN :
       GenReturnError(r, "storage", LeftOpen(r, gen[r].pc, gen[r].deferred, readDone))

\* conn.Begin() itself fails after a batch commit: no transaction exists
GenRebeginFail(r) ==
  /\ gen[r].pc = "rebegin"
  /\ GenReturnError(r, "storage", NoTx)

\* ------------------------------------------------------ the feed loader
\* A feed file is the sequence of its data points in the order the loader
\* meets them; ts is {} for a timestamp no format parses.
DataPoint(t, ts, v, q) == [tag |-> t, ts |-> ts, value |-> v, quality |-> q]

IdleLoader ==
  [pc |-> "idle", file |-> <<>>, i |-> 0, totalCount |-> 0, pre |-> {},
   last |-> "none"]

\* variant: a tie keeps the stored row
LoaderKeepsOnTie(q, existingQuality) == ~(q > existingQuality)

\* the loader leaves an existing row alone: not (dp.Quality >= existingQuality)
LoaderKeeps(q, existingQuality) == ~(q >= existingQuality)

\* LoadFromReader: decode, conn.Begin(), defer tx.Rollback(), Prepare
LoadBegin(file) ==
  /\ ld.pc = "idle"
  /\ ld' = [IdleLoader EXCEPT !.pc = IF file = <<>> THEN "commit" ELSE "apply",
                               !.file = file, !.i = 1, !.pre = rows]
  /\ txn' = [txn EXCEPT !["loader"] = OpenTx]
  /\ UNCHANGED <<rows, tags, gen, events, gh, csv, dt, ct, qry>>

\* variant: the open transaction is committed on return
LoaderRowsAfterReturnFlushed == Committed("loader")

\* the committed rows once LoadFromReader has returned an error
LoaderRowsAfterReturn == rows

\* LoadFromReader returns an error: the deferred Rollback ends the transaction
LoadReturnError ==
  /\ ld' = [ld EXCEPT !.pc = "error", !.totalCount = 0]
  /\ txn' = [txn EXCEPT !["loader"] = NoTx]
  /\ rows' = LoaderRowsAfterReturn
  /\ UNCHANGED <<tags, gen, events, gh, csv, dt, ct, qry>>

\* one data point: parse the timestamp, look the row up, insert or update
\* or skip
LoadApply ==
  LET dp == ld.file[ld.i]
      view == TxView("loader")
  IN
  /\ ld.pc = "apply"
  /\ IF ~Parses(dp.ts) THEN LoadReturnError
     ELSE LET ts == Parsed(dp.ts)
              row == Row(dp.tag, ts, dp.value, dp.quality)
              existing == Lookup(view, dp.tag, ts)
              keep == \E e \in existing : LoaderKeeps(dp.quality, e.quality)
          IN /\ IF existing = {}
                THEN CanWrite("loader") /\ CanInsert(view, row)
                     /\ txn' = [txn EXCEPT !["loader"] = TxWrite("loader", InsertRow(view, row))]
                ELSE IF keep
                THEN txn' = [txn EXCEPT !["loader"] = TxRead("loader")]
                ELSE CanWrite("loader")
                     /\ txn' = [txn EXCEPT !["loader"] = TxWrite("loader", UpdateRow(view, row))]
             /\ ld' = [ld EXCEPT !.i = @ + 1,
                                 !.totalCount = IF keep THEN @ ELSE @ + 1,
                                 !.pc = IF ld.i = Len(ld.file) THEN "commit" ELSE "apply",
                                 !.last = IF existing = {} THEN "insert"
                                          ELSE IF keep THEN "skip" ELSE "update"]
             /\ UNCHANGED <<rows, tags, gen, events, gh, csv, dt, ct, qry>>

\* tx.Commit() and the return of the count
LoadCommit ==
  /\ ld.pc = "commit"
  /\ CanCommit("loader")
  /\ rows' = Committed("loader")
  /\ txn' = [txn EXCEPT !["loader"] = NoTx]
  /\ ld' = [ld EXCEPT !.pc = "done"]
  /\ UNCHANGED <<tags, gen, events, gh, csv, dt, ct, qry>>

\* a storage statement of the load fails (locked database, I/O error)
LoadFail ==
  /\ ld.pc \in {"apply", "commit"}
  /\ LoadReturnError

\* -------------------------------------------------------- the CSV import
\* A CSV file is its header's tags and its data rows; a row is its timestamp
\* ({} when no format parses), the value of each tag column, and whether its
\* column count and numbers are well formed.
CsvRow(ts, v, ok) == [ts |-> ts, value |-> v, ok |-> ok]

IdleCsv ==
  [pc |-> "idle", mode |-> "override", header |-> <<>>, data |-> <<>>,
   i |-> 0, k |-> 0, totalCount |-> 0, pre |-> {}, now |-> 0, at |-> "none"]

\* ImportFromCSV up to the first statement: a file without data rows goes
\* straight to registering its tags, any other begins a transaction
CsvBegin(mode, header, data, now) ==
  /\ csv.pc = "idle"
  /\ csv' = [IdleCsv EXCEPT !.mode = mode, !.header = header, !.data = data,
                            !.i = 1, !.k = 1, !.pre = rows, !.now = now,
                            !.pc = IF data = <<>> THEN "register"
                                   ELSE IF mode = "replace" THEN "delete"
                                   ELSE "insert"]
  /\ txn' = [txn EXCEPT !["csv"] = IF data = <<>> THEN NoTx ELSE OpenTx]
  /\ UNCHANGED <<rows, tags, gen, events, gh, ld, dt, ct, qry>>

\* variant: the open transaction is committed on return
CsvRowsAfterReturnFlushed == Committed("csv")

\* the committed rows once ImportFromCSV has returned an error
CsvRowsAfterReturn == rows

\* ImportFromCSV returns an error: the deferred Rollback ends the transaction
\* (`at` keeps the step that failed)
CsvReturnError ==
  /\ csv' = [csv EXCEPT !.pc = "error", !.at = csv.pc]
  /\ txn' = [txn EXCEPT !["csv"] = NoTx]
  /\ rows' = CsvRowsAfterReturn
  /\ UNCHANGED <<tags, gen, events, gh, ld, dt, ct, qry>>

RECURSIVE DeleteTagsRecords(_, _, _)
\* tx.Exec("DELETE FROM insight_raws WHERE tag = ?") for each header tag
DeleteTagsRecords(S, header, n) ==
  IF n = 0 THEN S
  ELSE DeleteTagRecords(DeleteTagsRecords(S, header, n - 1), header[n])

\* replace mode: the deletes, inside the transaction
CsvDelete ==
  /\ csv.pc = "delete"
  /\ CanWrite("csv")
  /\ txn' = [txn EXCEPT !["csv"] =
       TxWrite("csv", DeleteTagsRecords(TxView("csv"), csv.header, Len(csv.header)))]
  /\ csv' = [csv EXCEPT !.pc = "insert"]
  /\ UNCHANGED <<rows, tags, gen, events, gh, ld, dt, ct, qry>>

RECURSIVE InsertCsvRow(_, _, _, _, _)
\* stmt.Exec(tag, tsMs, value, importQuality) for each header tag
InsertCsvRow(S, header, n, ts, v) ==
  IF n = 0 THEN S
  ELSE InsertOrReplace(InsertCsvRow(S, header, n - 1, ts, v),
                       Row(header[n], ts, v, importQuality))

\* one data row: check it, parse it, INSERT OR REPLACE one row per tag
CsvInsert ==
  LET row == csv.data[csv.i] IN
  /\ csv.pc = "insert"
  /\ IF ~row.ok \/ ~Parses(row.ts) THEN CsvReturnError
     ELSE /\ CanWrite("csv")
          /\ txn' = [txn EXCEPT !["csv"] =
               TxWrite("csv", InsertCsvRow(TxView("csv"), csv.header,
                                           Len(csv.header), Parsed(row.ts), row.value))]
          /\ csv' = [csv EXCEPT !.i = @ + 1,
                                !.totalCount = @ + Len(csv.header),
                                !.pc = IF csv.i = Len(csv.data) THEN "commit" ELSE "insert"]
          /\ UNCHANGED <<rows, tags, gen, events, gh, ld, dt, ct, qry>>

\* tx.Commit()
CsvCommit ==
  /\ csv.pc = "commit"
  /\ CanCommit("csv")
  /\ rows' = Committed("csv")
  /\ txn' = [txn EXCEPT !["csv"] = NoTx]
  /\ csv' = [csv EXCEPT !.pc = "register"]
  /\ UNCHANGED <<tags, gen, events, gh, ld, dt, ct, qry>>

\* u.db.InsertTagIfNotExists(tag, now, now, "upload") for the next header tag
CsvRegister ==
  /\ csv.pc = "register"
  /\ CanAutoWrite
  /\ tags' = InsertTagIfNotExists(tags, csv.header[csv.k], csv.now, csv.now, "upload")
  /\ csv' = [csv EXCEPT !.k = @ + 1,
                        !.pc = IF csv.k = Len(csv.header) THEN "done" ELSE "register"]
  /\ UNCHANGED <<rows, txn, gen, events, gh, ld, dt, ct, qry>>

\* a storage statement of the import fails (locked database, I/O error)
CsvFail ==
  /\ csv.pc \in {"delete", "insert", "commit", "register"}
  /\ CsvReturnError

\* ------------------------------------------------- tag deletion, creation
\* DeleteTagData: s.db.DeleteTagRecords(tag)
DeleteTagDataRecords(t) ==
  /\ dt.pc = "idle"
  /\ CanAutoWrite
  /\ rows' = DeleteTagRecords(rows, t)
  /\ dt' = [pc |-> "tag", tag |-> t]
  /\ UNCHANGED <<tags, txn, gen, events, gh, ld, csv, ct, qry>>

\* DeleteTagData: s.db.DeleteTag(tag)
DeleteTagDataTag ==
  /\ dt.pc = "tag"
  /\ CanAutoWrite
  /\ tags' = DeleteTag(tags, dt.tag)
  /\ dt' = [dt EXCEPT !.pc = "done"]
  /\ UNCHANGED <<rows, txn, gen, events, gh, ld, csv, ct, qry>>

\* either statement of DeleteTagData fails
DeleteTagDataFail(t) ==
  /\ dt.pc \in {"idle", "tag"}
  /\ dt' = [pc |-> "error", tag |-> IF dt.pc = "idle" THEN t ELSE dt.tag]
  /\ UNCHANGED <<rows, tags, txn, gen, events, gh, ld, csv, ct, qry>>

\* TagsHandler.HandleDelete without a tag parameter: 400, no statement
HandleDeleteMissing ==
  /\ dt.pc = "idle"
  /\ dt' = [pc |-> "rejected", tag |-> ""]
  /\ UNCHANGED <<rows, tags, txn, gen, events, gh, ld, csv, ct, qry>>

IdleCreate == [pc |-> "idle", tag |-> "", source |-> "", status |-> 0]

\* the response to a create request
Created(tagName, source, status) ==
  [pc |-> "done", tag |-> tagName, source |-> source, status |-> status]

\* TagsHandler.HandlePost, TagsService.CreateTag, DB.InsertTag: an empty name
\* is answered 400, a name that exists 409 (the primary key rejects the
\* insert), a new one is inserted and answered 201
CreateTag(tagName, source, now) ==
  /\ ct.pc = "idle"
  /\ IF tagName = ""
     THEN tags' = tags /\ ct' = Created(tagName, source, 400)
     ELSE IF ~CanInsertTag(tags, tagName)
     THEN tags' = tags /\ ct' = Created(tagName, source, 409)
     ELSE /\ CanAutoWrite
          /\ tags' = InsertTag(tags, tagName, now, now,
                               IF source = "" THEN "custom" ELSE source)
          /\ ct' = Created(tagName, source, 201)
  /\ UNCHANGED <<rows, txn, gen, events, gh, ld, csv, dt, qry>>

\* the insert fails for another reason (locked database, I/O error): 500
CreateTagFail(tagName, source) ==
  /\ ct.pc = "idle"
  /\ tagName # ""
  /\ ct' = Created(tagName, source, 500)
  /\ UNCHANGED <<rows, tags, txn, gen, events, gh, ld, csv, dt, qry>>

\* ------------------------------------------------------------ the query
\* The calendar is scaled down: a second has SecondGrain time units (the
\* code's 1000 milliseconds), a day SecondsPerDay seconds, a month
\* DaysPerMonth days, a year twelve months.  Instant 0 is the epoch, the
\* first instant of day 1 of month 1 of year 0; a timestamp text that the
\* code writes or reads is modelled by the instant it denotes.
SecondGrain == 2
SecondsPerDay == 2
DaysPerMonth == 2
MonthsPerYear == 12

\* a timestamp literal of a request: its form ("T": date and time separated
\* by T, "space": separated by a space, "date": a date without a time,
\* "none": no timestamp at all) and the instant it denotes
Literal(form, t) == [form |-> form, t |-> t]

\* parseTimestampToMillis: {} when none of the formats matches
parseTimestampToMillis(isoTime) ==
  IF isoTime.form \in {"T", "space"} THEN {isoTime.t} ELSE {}

\* formatTimestamp: time.UnixMilli(millis).UTC().Format("2006-01-02T15:04:05"),
\* the text of the whole second the instant lies in
formatTimestamp(millis) == (millis \div SecondGrain) * SecondGrain

\* SQLite's integer division: the quotient is truncated toward zero
TruncDiv(a, b) == IF a >= 0 THEN a \div b ELSE -((-a) \div b)

\* datetime(timestamp/1000, 'unixepoch'): the second, and its day, month and
\* year counted from the epoch
UnixEpochSecond(timestamp) == TruncDiv(timestamp, SecondGrain)
DayIndex(timestamp) == UnixEpochSecond(timestamp) \div SecondsPerDay
MonthIndex(timestamp) == DayIndex(timestamp) \div DaysPerMonth
\* strftime('%Y'), strftime('%m'), strftime('%d')
StrfYear(timestamp) == MonthIndex(timestamp) \div MonthsPerYear
StrfMonth(timestamp) == (MonthIndex(timestamp) % MonthsPerYear) + 1
StrfDay(timestamp) == (DayIndex(timestamp) % DaysPerMonth) + 1

Aggregates == {"daily", "monthly", "quarterly", "yearly"}

\* bucketExpression: the bucket a row is grouped under (<<>>: no grouping)
bucketExpression(aggregate, timestamp) ==
  CASE aggregate = "daily" ->
         <<StrfYear(timestamp), StrfMonth(timestamp), StrfDay(timestamp)>>
    [] aggregate = "monthly" -> <<StrfYear(timestamp), StrfMonth(timestamp)>>
    [] aggregate = "quarterly" ->
         <<StrfYear(timestamp), ((StrfMonth(timestamp) - 1) \div 3) + 1>>
    [] aggregate = "yearly" -> <<StrfYear(timestamp)>>
    [] OTHER -> <<>>

\* the instant a date's text denotes: midnight of day d of month m of year y
DateInstant(y, m, d) ==
  (((y * MonthsPerYear + (m - 1)) * DaysPerMonth + (d - 1)) * SecondsPerDay)
    * SecondGrain

\* bucketToISO: the text of the bucket's start
bucketToISO(bucket, aggregate) ==
  CASE aggregate = "daily" -> DateInstant(bucket[1], bucket[2], bucket[3])
    [] aggregate = "monthly" -> DateInstant(bucket[1], bucket[2], 1)
    [] aggregate = "quarterly" ->
         DateInstant(bucket[1], (bucket[2] - 1) * 3 + 1, 1)
    [] aggregate = "yearly" -> DateInstant(bucket[1], 1, 1)

\* models.DataPoint of a response
OutPoint(timestamp, v, q) == [timestamp |-> timestamp, value |-> v, quality |-> q]

SeqRange(seq) == {seq[i] : i \in 1..Len(seq)}

\* variant: the end of the window is left out
InWindowOpenEnd(S, startTimestamp, endTimestamp, tagList) ==
  {r \in S : /\ r.ts >= startTimestamp /\ r.ts < endTimestamp
             /\ (Len(tagList) > 0 => r.tag \in SeqRange(tagList))}

\* WHERE timestamp >= ? AND timestamp <= ? [AND tag IN (...)]
InWindow(S, startTimestamp, endTimestamp, tagList) ==
  {r \in S : /\ r.ts >= startTimestamp /\ r.ts <= endTimestamp
             /\ (Len(tagList) > 0 => r.tag \in SeqRange(tagList))}

RECURSIVE OrderByTimestamp(_)
\* ORDER BY timestamp, for the rows of one tag
OrderByTimestamp(S) ==
  IF S = {} THEN <<>>
  ELSE LET first == CHOOSE x \in S : \A y \in S : x.ts <= y.ts
       IN <<first>> \o OrderByTimestamp(S \ {first})

\* the order of two bucket texts of one granularity
BucketBefore(a, b) ==
  \E i \in 1..Len(a) : a[i] < b[i] /\ \A j \in 1..(i - 1) : a[j] = b[j]

RECURSIVE OrderByBucket(_)
\* ORDER BY bucket
OrderByBucket(B) ==
  IF B = {} THEN <<>>
  ELSE LET first == CHOOSE x \in B : \A y \in B \ {x} : BucketBefore(x, y)
       IN <<first>> \o OrderByBucket(B \ {first})

RECURSIVE SumValue(_)
\* SUM(value)
SumValue(S) ==
  IF S = {} THEN 0
  ELSE LET r == CHOOSE x \in S : TRUE IN r.value + SumValue(S \ {r})

\* MAX(quality)
MaxQuality(S) == CHOOSE q \in {r.quality : r \in S} : \A r \in S : r.quality <= q

\* queryRaw: the selected rows, grouped by tag, each with its timestamp text
queryRaw(S, startTimestamp, endTimestamp, tagList) ==
  LET sel == InWindow(S, startTimestamp, endTimestamp, tagList)
  IN [t \in {r.tag : r \in sel} |->
        LET ordered == OrderByTimestamp({r \in sel : r.tag = t})
        IN [i \in 1..Len(ordered) |->
              OutPoint(formatTimestamp(ordered[i].ts), ordered[i].value,
                       ordered[i].quality)]]

\* queryAggregated: GROUP BY tag, bucket ORDER BY tag, bucket
queryAggregated(S, startTimestamp, endTimestamp, tagList, aggregate) ==
  IF aggregate \notin Aggregates
  THEN queryRaw(S, startTimestamp, endTimestamp, tagList)
  ELSE LET sel == InWindow(S, startTimestamp, endTimestamp, tagList)
       IN [t \in {r.tag : r \in sel} |->
             LET mine == {r \in sel : r.tag = t}
                 ordered == OrderByBucket({bucketExpression(aggregate, r.ts) : r \in mine})
             IN [i \in 1..Len(ordered) |->
                   LET group == {r \in mine :
                                   bucketExpression(aggregate, r.ts) = ordered[i]}
                   IN OutPoint(bucketToISO(ordered[i], aggregate),
                               SumValue(group), MaxQuality(group))]]

IdleQuery ==
  [pc |-> "idle", start |-> Literal("none", 0), end |-> Literal("none", 0),
   tags |-> <<>>, aggregate |-> "", err |-> "", reads |-> 0, result |-> <<>>,
   seen |-> {}, after |-> "idle"]

\* the query as it returns: its error ("" for none), the statements it has
\* sent to the store, its result; `seen` and `after` keep the rows it read
\* and where the feed load stood
Answer(req, err, reads, result) ==
  [pc |-> IF err = "" THEN "done" ELSE "error", start |-> req.start,
   end |-> req.end, tags |-> req.tags, aggregate |-> req.aggregate,
   err |-> err, reads |-> reads, result |-> result,
   seen |-> IF reads > 0 THEN rows ELSE {}, after |-> ld.pc]

\* the error of a start after the end
RangeOrderMessage == "start time must be before or equal to end time"

\* variant: the order of start and end is not checked
RangeOrderErrorNever(startTimestamp, endTimestamp) == FALSE

\* startTimestamp > endTimestamp
RangeOrderError(startTimestamp, endTimestamp) == startTimestamp > endTimestamp

\* variant: the SELECT sees the uncommitted rows of the first run
QueryViewDirty == TxView("g1")

\* the rows a SELECT on the pool's own connection sees: the committed ones
QueryView == rows

\* QueryTimeseriesData: parse, check the order, one SELECT
Query(req) ==
  LET s == parseTimestampToMillis(req.start)
      e == parseTimestampToMillis(req.end)
  IN /\ qry.pc = "idle"
     /\ qry' =
          IF s = {} THEN Answer(req, "invalid start time", 0, <<>>)
          ELSE IF e = {} THEN Answer(req, "invalid end time", 0, <<>>)
          ELSE LET startTimestamp == CHOOSE t \in s : TRUE
                   endTimestamp == CHOOSE t \in e : TRUE
               IN IF RangeOrderError(startTimestamp, endTimestamp)
                  THEN Answer(req, RangeOrderMessage,
                              0, <<>>)
                  ELSE IF req.aggregate = "" \/ req.aggregate = "raw"
                  THEN Answer(req, "", 1,
                              queryRaw(QueryView, startTimestamp, endTimestamp, req.tags))
                  ELSE Answer(req, "", 1,
                              queryAggregated(QueryView, startTimestamp, endTimestamp,
                                              req.tags, req.aggregate))
     /\ UNCHANGED <<rows, tags, txn, gen, events, gh, ld, csv, dt, ct>>

\* the SELECT fails (locked database, I/O error)
QueryFail(req) ==
  LET s == parseTimestampToMillis(req.start)
      e == parseTimestampToMillis(req.end)
  IN /\ qry.pc = "idle"
     /\ s # {} /\ e # {}
     /\ \A a \in s, b \in e : ~RangeOrderError(a, b)
     /\ qry' = Answer(req, "failed to query database", 1, <<>>)
     /\ UNCHANGED <<rows, tags, txn, gen, events, gh, ld, csv, dt, ct>>

\* ------------------------------------------ a generate request on its own
LongTime == 5 * TimeGrain + 1     \* a range that holds two 5-minute ticks

Request(t, s, e, f, lo, hi, seq) ==
  [tag |-> t, start |-> s, end |-> e, frequency |-> f, minValue |-> lo,
   maxValue |-> hi, cfgMin |-> 4, cfgMax |-> 5, useSequential |-> seq]

\* requests that differ in the value range they give
RangeRequests ==
  {Request("", {0}, {MaxTime}, "1min", lo, hi, FALSE) :
     lo \in {{}, {4}, {5}}, hi \in {{}, {4}, {5}}}

\* requests that differ in scope, time range and mode ({} is a malformed
\* time literal)
TimeRequests ==
  {Request(t, s, e, "1min", {}, {}, seq) :
     t \in {"", "A", "B"}, s \in {{}, {0}, {1}},
     e \in {{}, {0}, {1}, {MaxTime - 1}, {MaxTime}}, seq \in BOOLEAN}

\* requests at a 5-minute frequency
FrequencyRequests ==
  {Request("A", {s}, {e}, f, {}, {}, FALSE) :
     s \in {0, 1}, e \in {LongTime - 1, LongTime}, f \in {"5min", "1hour"}}

GenRequests == RangeRequests \cup TimeRequests \cup FrequencyRequests

\* stores and registries a run may find
SeedRows == {Row("A", 0, 7, 4), Row("A", 1, 7, 2), Row("B", 0, 7, 4)}
InitStores == {{}, SeedRows}
InitRegistries ==
  {{}, {TagRow("A", 0, 0, "custom")},
   {TagRow("A", 0, 0, "custom"), TagRow("B", 0, 0, "upload")}}

InitGen ==
  /\ rows \in InitStores
  /\ tags \in InitRegistries
  /\ txn = [p \in Procs |-> NoTx]
  /\ gen = [r \in Runs |-> IdleGen]
  /\ events = [r \in Runs |-> <<>>]
  /\ gh = [r \in Runs |-> NoHistory]
  /\ ld = IdleLoader
  /\ csv = IdleCsv
  /\ dt = [pc |-> "idle", tag |-> ""]
  /\ ct = IdleCreate
  /\ qry = IdleQuery

NextGen ==
  \/ \E req \in GenRequests : GenRequest("g1", req)
  \/ GenValidate("g1")
  \/ GenDelete("g1")
  \/ GenBegin("g1")
  \/ GenTick("g1")
  \/ GenCommit("g1")
  \/ GenRebegin("g1")
  \/ GenFinal("g1")
  \/ GenFail("g1")
  \/ GenRebeginFail("g1")

SpecGen == InitGen /\ [][NextGen]_vars

\* the run with a caller that may go away, under fair scheduling: a step of
\* the run that can be taken is taken
LiveRequests ==
  {Request("", {0}, {MaxTime}, "1min", {}, {}, seq) : seq \in BOOLEAN}
    \cup {Request("A", {0}, {LongTime}, "5min", {}, {}, FALSE),
          Request("B", {1}, {0}, "1min", {}, {}, FALSE),
          Request("A", {0}, {MaxTime}, "1min", {5}, {4}, FALSE)}

NextGenLive ==
  \/ \E req \in LiveRequests : GenRequest("g1", req)
  \/ GenValidate("g1")
  \/ GenDelete("g1")
  \/ GenBegin("g1")
  \/ GenTick("g1")
  \/ GenCommit("g1")
  \/ GenRebegin("g1")
  \/ GenFinal("g1")
  \/ GenFail("g1")
  \/ GenRebeginFail("g1")
  \/ CallerLeaves("g1")

SpecGenLive ==
  /\ InitGen /\ [][NextGenLive]_vars
  /\ WF_vars(GenValidate("g1")) /\ WF_vars(GenDelete("g1"))
  /\ WF_vars(GenBegin("g1")) /\ WF_vars(GenTick("g1"))
  /\ WF_vars(GenCommit("g1")) /\ WF_vars(GenRebegin("g1"))
  /\ WF_vars(GenFinal("g1"))

\* a run in sequential mode over a value range wide enough for a walk
SeqRequests ==
  {Request(t, {0}, {MaxTime}, "1min", {4}, {7}, TRUE) : t \in {"", "A"}}

NextGenSeq ==
  \/ \E req \in SeqRequests : GenRequest("g1", req)
  \/ GenValidate("g1")
  \/ GenDelete("g1")
  \/ GenBegin("g1")
  \/ GenTick("g1")
  \/ GenCommit("g1")
  \/ GenRebegin("g1")
  \/ GenFinal("g1")
  \/ GenFail("g1")
  \/ GenRebeginFail("g1")

SpecGenSeq == InitGen /\ [][NextGenSeq]_vars

\* two all-tags runs over the same time range and interval, side by side;
\* they differ in the value range they draw from
TwoRunRequests ==
  [g1 |-> Request("", {0}, {MaxTime}, "1min", {4}, {5}, FALSE),
   g2 |-> Request("", {0}, {MaxTime}, "1min", {6}, {7}, FALSE)]

InitGenTwo ==
  /\ rows \in InitStores
  /\ tags = {TagRow("A", 0, 0, "custom")}
  /\ txn = [p \in Procs |-> NoTx]
  /\ gen = [r \in Runs |-> IdleGen]
  /\ events = [r \in Runs |-> <<>>]
  /\ gh = [r \in Runs |-> NoHistory]
  /\ ld = IdleLoader
  /\ csv = IdleCsv
  /\ dt = [pc |-> "idle", tag |-> ""]
  /\ ct = IdleCreate
  /\ qry = IdleQuery

NextGenTwo ==
  \E r \in Runs :
    \/ GenRequest(r, TwoRunRequests[r])
    \/ GenValidate(r)
    \/ GenDelete(r)
    \/ GenBegin(r)
    \/ GenTick(r)
    \/ GenCommit(r)
    \/ GenRebegin(r)
    \/ GenFinal(r)
    \/ GenFail(r)
    \/ GenRebeginFail(r)

SpecGenTwo == InitGenTwo /\ [][NextGenTwo]_vars

\* ------------------------------------------------ a feed load on its own
MaxFileLen == 2     \* data points of a feed file

FeedPoints ==
  {DataPoint("A", ts, v, q) : ts \in {{}, {0}, {1}}, v \in {5, 9}, q \in Qualities}

\* every file of at most MaxFileLen data points, the empty one included
FeedFiles == UNION {[1..n -> FeedPoints] : n \in 0..MaxFileLen}

InitLoad ==
  /\ rows \in InitStores
  /\ tags = {}
  /\ txn = [p \in Procs |-> NoTx]
  /\ gen = [r \in Runs |-> IdleGen]
  /\ events = [r \in Runs |-> <<>>]
  /\ gh = [r \in Runs |-> NoHistory]
  /\ ld = IdleLoader
  /\ csv = IdleCsv
  /\ dt = [pc |-> "idle", tag |-> ""]
  /\ ct = IdleCreate
  /\ qry = IdleQuery

NextLoad ==
  \/ \E file \in FeedFiles : LoadBegin(file)
  \/ LoadApply
  \/ LoadCommit
  \/ LoadFail

SpecLoad == InitLoad /\ [][NextLoad]_vars

\* ----------------------------------------------------- a query on its own
\* the instant u time units into second s of day d of month m of year y
Instant(y, m, d, s, u) == DateInstant(y, m, d) + s * SecondGrain + u

\* the last representable instant of year y
YearEnd(y) ==
  Instant(y, MonthsPerYear, DaysPerMonth, SecondsPerDay - 1, SecondGrain - 1)

QueryStores ==
  { {},
    {Row("A", Instant(0, 1, 1, 0, 0), 5, 2), Row("A", Instant(0, 1, 1, 0, 1), 7, 4),
     Row("A", Instant(0, 1, 2, 0, 0), 9, 3), Row("A", Instant(0, 2, 1, 1, 0), 5, 3),
     Row("B", Instant(0, 1, 1, 0, 0), 9, 2), Row("B", Instant(0, 1, 2, 0, 0), 5, 4),
     Row("B", Instant(0, 1, 2, 1, 1), 7, 3)},
    {Row("A", YearEnd(-1), 5, 3), Row("A", Instant(0, 1, 1, 0, 0), 7, 2),
     Row("B", Instant(0, 3, 1, 0, 0), 9, 4), Row("B", Instant(0, 4, 1, 0, 0), 5, 2),
     Row("B", Instant(0, 7, 2, 1, 0), 7, 4), Row("B", Instant(1, 1, 1, 0, 0), 7, 3)} }

QueryStarts ==
  {Literal("T", Instant(-1, 1, 1, 0, 0)), Literal("space", Instant(0, 1, 1, 0, 0)),
   Literal("T", Instant(0, 2, 1, 0, 0)), Literal("date", Instant(0, 2, 1, 0, 0)),
   Literal("none", 0)}

QueryEnds ==
  {Literal("space", Instant(0, 1, 1, 0, 0)), Literal("T", Instant(0, 1, 2, 0, 0)),
   Literal("T", YearEnd(1)), Literal("date", Instant(0, 1, 1, 0, 0)),
   Literal("none", 0)}

QueryRequests ==
  [start : QueryStarts, end : QueryEnds, tags : {<<>>, <<"B", "C">>},
   aggregate : {"", "raw", "hourly"} \cup Aggregates]

\* feeds whose timestamps fall on a whole second or inside one
RoundTripFiles ==
  {<<DataPoint("A", {Instant(0, 1, 1, 0, 0)}, 6, 3)>>,
   <<DataPoint("A", {Instant(0, 1, 1, 0, 0)}, 6, 3),
     DataPoint("A", {Instant(0, 1, 1, 0, 0)}, 8, 2)>>,
   <<DataPoint("A", {Instant(0, 1, 2, 0, 0)}, 6, 2),
     DataPoint("C", {Instant(0, 1, 1, 1, 0)}, 8, 4)>>,
   <<DataPoint("C", {Instant(0, 1, 1, 0, 1)}, 6, 3),
     DataPoint("C", {Instant(0, 1, 1, 1, 0)}, 8, 4)>>,
   <<DataPoint("A", {}, 6, 3)>>}

InitQuery ==
  /\ rows \in QueryStores
  /\ tags = {}
  /\ txn = [p \in Procs |-> NoTx]
  /\ gen = [r \in Runs |-> IdleGen]
  /\ events = [r \in Runs |-> <<>>]
  /\ gh = [r \in Runs |-> NoHistory]
  /\ ld = IdleLoader
  /\ csv = IdleCsv
  /\ dt = [pc |-> "idle", tag |-> ""]
  /\ ct = IdleCreate
  /\ qry = IdleQuery

NextQuery ==
  \/ \E req \in QueryRequests : Query(req)
  \/ \E req \in QueryRequests : QueryFail(req)
  \/ \E file \in RoundTripFiles : LoadBegin(file)
  \/ LoadApply
  \/ LoadCommit
  \/ LoadFail

SpecQuery == InitQuery /\ [][NextQuery]_vars

\* ------------------------------------------- the tag registry on its own
\* the clock readings of the requests
Nows == {1, 2}

\* CSV files without data rows: their tags are registered and nothing else
HeaderFiles == {<<"A">>, <<"A", "B">>, <<"B", "B">>}

InitTags ==
  /\ rows \in InitStores
  /\ tags \in InitRegistries
  /\ txn = [p \in Procs |-> NoTx]
  /\ gen = [r \in Runs |-> IdleGen]
  /\ events = [r \in Runs |-> <<>>]
  /\ gh = [r \in Runs |-> NoHistory]
  /\ ld = IdleLoader
  /\ csv = IdleCsv
  /\ dt = [pc |-> "idle", tag |-> ""]
  /\ ct = IdleCreate
  /\ qry = IdleQuery

NextTags ==
  \/ \E header \in HeaderFiles, now \in Nows : CsvBegin("override", header, <<>>, now)
  \/ CsvRegister
  \/ CsvFail
  \/ \E t \in Tags \cup {""}, source \in {"", "import"}, now \in Nows :
       CreateTag(t, source, now)
  \/ \E t \in Tags, source \in {"", "import"} : CreateTagFail(t, source)
  \/ \E t \in Tags : DeleteTagDataRecords(t)
  \/ DeleteTagDataTag
  \/ \E t \in Tags : DeleteTagDataFail(t)
  \/ HandleDeleteMissing

SpecTags == InitTags /\ [][NextTags]_vars

\* ------------------------------------------------ a CSV import on its own
\* data rows: a timestamp that parses or not, a value, well formed or not
CsvRows ==
  {CsvRow(ts, v, ok) : ts \in {{}, {0}, {1}}, v \in {8, 9}, ok \in BOOLEAN}

\* every file of at most MaxFileLen data rows under a header of one or two
\* tags, in either mode
CsvFiles ==
  {<<mode, header, data>> :
     mode \in {"override", "replace"}, header \in {<<"A">>, <<"A", "B">>},
     data \in UNION {[1..n -> CsvRows] : n \in 0..MaxFileLen}}

InitCsv ==
  /\ rows \in InitStores
  /\ tags = {}
  /\ txn = [p \in Procs |-> NoTx]
  /\ gen = [r \in Runs |-> IdleGen]
  /\ events = [r \in Runs |-> <<>>]
  /\ gh = [r \in Runs |-> NoHistory]
  /\ ld = IdleLoader
  /\ csv = IdleCsv
  /\ dt = [pc |-> "idle", tag |-> ""]
  /\ ct = IdleCreate
  /\ qry = IdleQuery

NextCsv ==
  \/ \E f \in CsvFiles : CsvBegin(f[1], f[2], f[3], 1)
  \/ CsvDelete
  \/ CsvInsert
  \/ CsvCommit
  \/ CsvRegister
  \/ CsvFail

SpecCsv == InitCsv /\ [][NextCsv]_vars

\* ------------------------------------------ a query during a generate run
\* an all-tags run over the whole range, at random or in sequence
RunRequests ==
  {Request("", {0}, {MaxTime}, "1min", {}, {}, seq) : seq \in BOOLEAN}

\* raw queries over a window that covers every tick, for every tag or for A
CoveringQueries ==
  [start : {Literal("T", Instant(-1, 1, 1, 0, 0))}, end : {Literal("T", YearEnd(1))},
   tags : {<<>>, <<"A">>}, aggregate : {"raw"}]

InitGenQuery ==
  /\ rows \in InitStores
  /\ tags \in InitRegistries \ {{}}
  /\ txn = [p \in Procs |-> NoTx]
  /\ gen = [r \in Runs |-> IdleGen]
  /\ events = [r \in Runs |-> <<>>]
  /\ gh = [r \in Runs |-> NoHistory]
  /\ ld = IdleLoader
  /\ csv = IdleCsv
  /\ dt = [pc |-> "idle", tag |-> ""]
  /\ ct = IdleCreate
  /\ qry = IdleQuery

NextGenQuery ==
  \/ \E req \in RunRequests : GenRequest("g1", req)
  \/ GenValidate("g1")
  \/ GenDelete("g1")
  \/ GenBegin("g1")
  \/ GenTick("g1")
  \/ GenCommit("g1")
  \/ GenRebegin("g1")
  \/ GenFinal("g1")
  \/ GenFail("g1")
  \/ GenRebeginFail("g1")
  \/ \E req \in CoveringQueries : Query(req)
  \/ \E req \in CoveringQueries : QueryFail(req)

SpecGenQuery == InitGenQuery /\ [][NextGenQuery]_vars

\* ------------------------------------------------- the server as a whole
\* Every handler runs in its own goroutine: one generate request, one feed
\* load, one CSV import and one tag deletion run side by side with tag
\* creations, on a database that starts empty.
ServerRequests ==
  {Request("A", {0}, {TimeGrain - 1}, "1min", {}, {}, FALSE)}

ServerFiles ==
  {<<DataPoint("A", {0}, 9, 4)>>,
   <<DataPoint("A", {0}, 9, 2), DataPoint("B", {}, 9, 4)>>}

ServerCsvFiles ==
  {<<"override", <<"A">>, <<CsvRow({0}, 8, TRUE)>> >>,
   <<"replace", <<"A", "B">>, <<CsvRow({0}, 8, TRUE)>> >>}

Init ==
  /\ rows = {}
  /\ tags = {}
  /\ txn = [p \in Procs |-> NoTx]
  /\ gen = [r \in Runs |-> IdleGen]
  /\ events = [r \in Runs |-> <<>>]
  /\ gh = [r \in Runs |-> NoHistory]
  /\ ld = IdleLoader
  /\ csv = IdleCsv
  /\ dt = [pc |-> "idle", tag |-> ""]
  /\ ct = IdleCreate
  /\ qry = IdleQuery

Next ==
  \/ \E req \in ServerRequests : GenRequest("g1", req)
  \/ GenValidate("g1")
  \/ GenDelete("g1")
  \/ GenBegin("g1")
  \/ GenTick("g1")
  \/ GenCommit("g1")
  \/ GenRebegin("g1")
  \/ GenFinal("g1")
  \/ GenFail("g1")
  \/ GenRebeginFail("g1")
  \/ \E file \in ServerFiles : LoadBegin(file)
  \/ LoadApply
  \/ LoadCommit
  \/ LoadFail
  \/ \E f \in ServerCsvFiles : CsvBegin(f[1], f[2], f[3], 1)
  \/ CsvDelete
  \/ CsvInsert
  \/ CsvCommit
  \/ CsvRegister
  \/ CsvFail
  \/ \E t \in Tags : DeleteTagDataRecords(t)
  \/ DeleteTagDataTag
  \/ \E t \in Tags : DeleteTagDataFail(t)
  \/ \E t \in Tags : CreateTag(t, "", 1)
  \/ \E t \in Tags : CreateTagFail(t, "")

Spec == Init /\ [][Next]_vars

\* ======================================================== the properties
\* at most one row per (tag, timestamp) in a set of rows
Unique(S) == \A a, b \in S : (a.tag = b.tag /\ a.ts = b.ts) => a = b

\* C1: in every reachable state, whatever merges of the feed loader, of the
\* generator and of the CSV import and whatever tag deletion have interleaved,
\* the store holds at most one Sample per (tag, timestamp) pair; so does the
\* working copy of every open transaction.
C1_Uniqueness ==
  /\ Unique(rows)
  /\ \A p \in Procs : Unique(txn[p].work)

\* the loader, the CSV import and the generator have each committed a write
\* to the key ("A", 0), a tag deletion has run, and one row is stored there
C1_Witness ==
  /\ ld.pc = "done" /\ ld.totalCount > 0
  /\ csv.pc = "done"
  /\ gen["g1"].pc = "done" /\ gh["g1"].committed # {}
  /\ dt.pc = "done"
  /\ Cardinality(Lookup(rows, "A", 0)) = 1

\* C2: one step of the merge of a data point onto the rows its transaction
\* sees: with a row of quality q0 at the key and an incoming quality q1, the
\* row becomes the incoming value and quality when q1 >= q0 (a tie favours
\* the incoming one) and stays exactly as it was when q1 < q0; with no row at
\* the key the incoming one is inserted; every other row is left alone.
C2_MergeRule ==
  [][(ld.pc = "apply" /\ ld'.pc # "error" /\ ld'.i = ld.i + 1) =>
       LET dp == ld.file[ld.i]
           ts == Parsed(dp.ts)
           incoming == Row(dp.tag, ts, dp.value, dp.quality)
           before == TxView("loader")
           after == TxView("loader")'
           old == Lookup(before, dp.tag, ts)
       IN /\ old = {} => Lookup(after, dp.tag, ts) = {incoming}
          /\ \A e \in old :
               Lookup(after, dp.tag, ts) =
                 {IF dp.quality >= e.quality THEN incoming ELSE e}
          /\ after \ Lookup(after, dp.tag, ts) = before \ old
    ]_vars

\* the first data point of a file met a stored row of its own quality and of
\* another value, and replaced it
C2_Witness ==
  /\ ld.pc \in {"apply", "commit", "done"}
  /\ ld.i = 2
  /\ ld.last = "update"
  /\ \E e \in ld.pre :
       /\ e.tag = ld.file[1].tag /\ {e.ts} = ld.file[1].ts
       /\ e.quality = ld.file[1].quality /\ e.value # ld.file[1].value
       /\ Row(e.tag, e.ts, ld.file[1].value, e.quality) \in TxView("loader")

RECURSIVE MergedFile(_, _, _)
\* the rows S after the first n data points of a file have been merged in
MergedFile(S, file, n) ==
  IF n = 0 THEN S
  ELSE LET T == MergedFile(S, file, n - 1)
           dp == file[n]
           incoming == Row(dp.tag, Parsed(dp.ts), dp.value, dp.quality)
           old == Lookup(T, dp.tag, Parsed(dp.ts))
       IN IF old = {} THEN T \cup {incoming}
          ELSE IF \E e \in old : dp.quality >= e.quality
          THEN (T \ old) \cup {incoming}
          ELSE T

\* C3: the load of one file is all-or-nothing: once LoadFromReader has
\* returned an error (a malformed timestamp or a failed statement) the stored
\* rows are exactly those from before the call, also when data points of the
\* file had been applied before the failing one; once it has returned success
\* every data point of the file has been applied.
C3_AllOrNothing ==
  /\ ld.pc = "error" => rows = ld.pre /\ txn["loader"] = NoTx
  /\ ld.pc = "done" => rows = MergedFile(ld.pre, ld.file, Len(ld.file))

\* the load failed on its second data point after the first had changed the
\* rows of its transaction
C3_Witness ==
  /\ ld.pc = "error"
  /\ ld.i = 2
  /\ ld.last \in {"insert", "update"}
  /\ MergedFile(ld.pre, ld.file, 1) # ld.pre

\* the rows a run has written: in committed batches, in its current batch,
\* in a batch that was never committed
Written(r) == gh[r].committed \cup gh[r].batch \cup gh[r].lost

RowsOf(S, t) == {x \in S : x.tag = t}

\* C4: generation is batch-atomic, not run-atomic: once a run has ended in an
\* error, every row of the batches it had committed is still stored, and no
\* row of the batch that was open when it failed is stored.
C4_BatchAtomic ==
  gen["g1"].pc = "error" =>
    /\ gh["g1"].committed \subseteq rows
    /\ gh["g1"].lost \cap rows = {}

\* a run failed after it had committed a batch and written rows of the next
C4_Witness ==
  /\ gen["g1"].pc = "error"
  /\ gh["g1"].batches >= 1
  /\ gh["g1"].committed # {}
  /\ gh["g1"].lost # {}

\* C5: a run deletes the rows of its tags before it writes any: nothing is
\* written and the store is untouched until the delete; after the delete of a
\* run for all tags no row from before the run is stored; after the delete of
\* a run for one tag no row of that tag from before the run is stored, and
\* the rows of every other tag are those from before the run, whatever the
\* run goes on to do.
C5_DeleteBeforeWrite ==
  LET g == gen["g1"]
      h == gh["g1"]
  IN /\ (g.pc # "idle" /\ h.deletes = 0) => (Written("g1") = {} /\ rows = h.pre)
     /\ (h.deletes > 0 /\ g.tag = "") => rows \cap h.pre = {}
     /\ (g.pc = "begin" /\ g.tag = "") => rows = {}
     /\ (h.deletes > 0 /\ g.tag # "") => RowsOf(rows, g.tag) \cap h.pre = {}
     /\ (g.pc = "begin" /\ g.tag # "") => RowsOf(rows, g.tag) = {}
     /\ (g.pc # "idle" /\ g.tag # "") =>
          \A t \in Tags \ {g.tag} : RowsOf(rows, t) = RowsOf(h.pre, t)

\* a run for the one tag "A" is over: it has written rows of "A", the rows
\* "A" had before are gone and those of "B" are still stored
C5_Witness ==
  /\ gen["g1"].pc = "done"
  /\ gen["g1"].tag = "A"
  /\ RowsOf(gh["g1"].pre, "A") # {}
  /\ RowsOf(gh["g1"].pre, "B") # {}
  /\ RowsOf(rows, "B") = RowsOf(gh["g1"].pre, "B")
  /\ RowsOf(rows, "A") = gh["g1"].committed
  /\ gh["g1"].committed # {}

\* the request's effective value range or its time range is not one a run
\* accepts
BadRequest(g) ==
  \/ g.minValue >= g.maxValue
  \/ /\ Parses(g.start) /\ Parses(g.end)
     /\ ~(Parsed(g.start) < Parsed(g.end))

\* C6: a request whose effective range has min >= max, or whose start is not
\* strictly before its end, fails without touching storage: it never gets
\* past validation, nothing is deleted, nothing is written, and the stored
\* rows are those from before the request.
C6_RejectedUntouched ==
  LET g == gen["g1"]
      h == gh["g1"]
  IN (g.pc # "idle" /\ BadRequest(g)) =>
       /\ g.pc \in {"rejected", "validating", "error"}
       /\ h.deletes = 0
       /\ Written("g1") = {}
       /\ rows = h.pre
       /\ txn["g1"] = NoTx

\* a request whose start is after its end has failed on a store that holds
\* rows
C6_Witness ==
  /\ gen["g1"].pc = "error"
  /\ gen["g1"].minValue < gen["g1"].maxValue
  /\ Parses(gen["g1"].start) /\ Parses(gen["g1"].end)
  /\ Parsed(gen["g1"].start) > Parsed(gen["g1"].end)
  /\ rows = SeedRows

\* floor((end - start) / I) for a run's time range and interval
LastTick(g) ==
  (Parsed(g.end) - Parsed(g.start)) \div (g.intervalMinutes * TimeGrain)

\* start + k*I for k = 0 .. floor((end - start) / I)
TickTimes(g) ==
  {Parsed(g.start) + k * g.intervalMinutes * TimeGrain : k \in 0..LastTick(g)}

\* C7: after a successful run over [start, end] at interval I every tag of
\* the run holds exactly floor((end - start) / I) + 1 rows, at the instants
\* start + k*I for k = 0 .. floor((end - start) / I), all of them within
\* [start, end].
C7_TickCoverage ==
  LET g == gen["g1"] IN
  g.pc = "done" =>
    \A i \in 1..Len(g.tagList) :
      LET stored == RowsOf(rows, g.tagList[i]) IN
      /\ Cardinality(stored) = LastTick(g) + 1
      /\ {x.ts : x \in stored} = TickTimes(g)
      /\ \A x \in stored : Parsed(g.start) <= x.ts /\ x.ts <= Parsed(g.end)

\* a run at a 5-minute interval over a range of five and a half minutes is
\* over and its tag holds the two rows at start and start + 5 minutes
C7_Witness ==
  /\ gen["g1"].pc = "done"
  /\ gen["g1"].intervalMinutes = 5
  /\ gen["g1"].tagList = <<"A">>
  /\ Parsed(gen["g1"].end) - Parsed(gen["g1"].start) = LongTime
  /\ {x.ts : x \in RowsOf(rows, "A")} =
       {Parsed(gen["g1"].start), Parsed(gen["g1"].start) + 5 * TimeGrain}

\* C8: every value a run writes, in sequential and in uniform mode, lies
\* within [minValue, maxValue]; a drawn value below minValue is stored as
\* minValue, one above maxValue as maxValue, any other as it is.
C8_ValuesInRange ==
  LET g == gen["g1"]
      h == gh["g1"]
  IN /\ \A x \in Written("g1") : g.minValue <= x.value /\ x.value <= g.maxValue
     /\ \A d \in h.draws :
          /\ d[1] < g.minValue => d[2] = g.minValue
          /\ d[1] > g.maxValue => d[2] = g.maxValue
          /\ (g.minValue <= d[1] /\ d[1] <= g.maxValue) => d[2] = d[1]
     /\ \A x \in Written("g1") : \E d \in h.draws : d[2] = x.value

\* a sequential run is over in which one step went below minValue and another
\* above maxValue, and the rows it wrote hold the two bounds
C8_Witness ==
  /\ gen["g1"].pc = "done"
  /\ gen["g1"].useSequential
  /\ \E d \in gh["g1"].draws : d[1] < gen["g1"].minValue
  /\ \E d \in gh["g1"].draws : d[1] > gen["g1"].maxValue
  /\ {x.value : x \in rows} = {gen["g1"].minValue, gen["g1"].maxValue}

TerminalEvents == {"done", "error"}

\* C9: the events of a run are one tag_complete per finished tag, in the
\* order of the run's tags, each with its tag's name and the number of rows
\* written for it, then exactly one terminal event once the run is over: done
\* with the total row count and the tag count when every tag finished and the
\* run succeeded, error with a message when a step failed; never both, never
\* none, and nothing after the terminal event.
C9_ProgressSequence ==
  LET g == gen["g1"]
      ev == events["g1"]
      n == Len(ev)
  IN /\ \A i \in 1..n : ev[i].event \in TerminalEvents => i = n
     /\ \A i \in 1..n :
          ev[i].event \notin TerminalEvents =>
            /\ i <= Len(g.tagList)
            /\ ev[i] = onTagComplete(g.tagList[i],
                                     Cardinality(RowsOf(Written("g1"), g.tagList[i])))
            /\ i < g.ti \/ g.pc \in {"final", "done", "error"}
     /\ g.pc = "done" =>
          /\ n = Len(g.tagList) + 1
          /\ ev[n] = DoneEvent(Cardinality(Written("g1")), Len(g.tagList))
     /\ g.pc = "error" => (n >= 1 /\ ev[n].event = "error" /\ ev[n].message # "")
     /\ g.pc \notin {"done", "error"} =>
          \A i \in 1..n : ev[i].event \notin TerminalEvents
     /\ g.pc \in {"tick", "commit"} => n = g.ti - 1

\* a run over two tags failed after its first tag was complete: the events
\* are the tag_complete of the first tag, then the error
C9_Witness ==
  /\ gen["g1"].pc = "error"
  /\ gen["g1"].tagList = <<"A", "B">>
  /\ Len(events["g1"]) = 2
  /\ events["g1"][1].event = "tag_complete"
  /\ events["g1"][1].tag = "A"
  /\ events["g1"][1].records > 0
  /\ events["g1"][2].event = "error"

\* the steps of a run's state machine
PhaseSteps ==
  {<<"idle", "validating">>, <<"validating", "deleting">>,
   <<"deleting", "generating">>, <<"generating", "generating">>,
   <<"generating", "done">>,
   <<"validating", "error">>, <<"deleting", "error">>,
   <<"generating", "error">>}

\* C10: a run moves only along validating -> deleting -> generating(tag_1)
\* -> ... -> generating(tag_n) -> done, or from one of these to error; the
\* delete happens once, in the deleting phase and before any row is written;
\* done and error are terminal: after them no tag is generated, no row is
\* written, nothing is deleted and the run does not start again.
C10_StateMachine ==
  /\ [][LET g == gen["g1"]
            g2 == gen'["g1"]
        IN /\ g2.pc # g.pc =>
                \/ <<Phase(g.pc), Phase(g2.pc)>> \in PhaseSteps
                \/ g.pc = "idle" /\ g2.pc = "rejected"
           /\ (Phase(g.pc) = "generating" /\ Phase(g2.pc) = "generating") =>
                g2.ti \in {g.ti, g.ti + 1}
           /\ (Phase(g.pc) = "deleting" /\ Phase(g2.pc) = "generating") =>
                g2.ti \in {0, 1}
           /\ gh'["g1"].deletes # gh["g1"].deletes =>
                /\ g.pc = "deleting"
                /\ gh'["g1"].deletes = 1
                /\ Written("g1") = {}
           /\ Written("g1")' # Written("g1") => Phase(g.pc) = "generating"
           /\ g.pc \in {"done", "error"} =>
                /\ g2 = g
                /\ rows' = rows
                /\ gh' = gh
                /\ events' = events
       ]_vars
  /\ [](/\ gh["g1"].deletes <= 1
        /\ Phase(gen["g1"].pc) \in {"generating", "done"} => gh["g1"].deletes = 1
        /\ Written("g1") # {} => gh["g1"].deletes = 1)

\* a run over two tags failed while it generated the first: its delete has
\* happened, rows of the first tag are written, none of the second
C10_Witness ==
  /\ gen["g1"].pc = "error"
  /\ gen["g1"].tagList = <<"A", "B">>
  /\ gen["g1"].ti = 1
  /\ gh["g1"].deletes = 1
  /\ RowsOf(Written("g1"), "A") # {}
  /\ RowsOf(Written("g1"), "B") = {}

\* ------------------------------------------------------------------ C11
\* the instants a finished query's start and end denote
QueryStart == qry.start.t
QueryEnd == qry.end.t

\* the samples the query read that lie in its window and carry one of its
\* tags (every tag when it names none)
Selected ==
  {r \in qry.seen : /\ QueryStart <= r.ts /\ r.ts <= QueryEnd
                    /\ (qry.tags = <<>> \/ \E i \in DOMAIN qry.tags : qry.tags[i] = r.tag)}

\* the i-th of a tag's samples in ascending timestamp order
Nth(S, i) == CHOOSE r \in S : Cardinality({x \in S : x.ts < r.ts}) = i - 1

\* the text of an instant names its whole second
SecondText(ts) == ts - (ts % SecondGrain)

BucketLength(aggregate) ==
  CASE aggregate = "daily" -> SecondsPerDay * SecondGrain
    [] aggregate = "monthly" -> DaysPerMonth * SecondsPerDay * SecondGrain
    [] aggregate = "quarterly" -> 3 * DaysPerMonth * SecondsPerDay * SecondGrain
    [] aggregate = "yearly" -> MonthsPerYear * DaysPerMonth * SecondsPerDay * SecondGrain

\* the start of the UTC calendar bucket an instant lies in
BucketStart(aggregate, ts) == ts - (ts % BucketLength(aggregate))

\* C12: an aggregated query (daily, monthly, quarterly, yearly) returns, per
\* tag, one point for each UTC calendar bucket that holds at least one
\* selected sample and no other point; the point's value is the sum of the
\* bucket's values, its quality their highest quality, its timestamp the
\* start of the bucket; the points are in ascending order of bucket.
C12_Aggregation ==
  (qry.pc = "done" /\ qry.aggregate \in Aggregates) =>
    /\ DOMAIN qry.result = {r.tag : r \in Selected}
    /\ \A t \in DOMAIN qry.result :
         LET mine == {r \in Selected : r.tag = t}
             starts == {BucketStart(qry.aggregate, r.ts) : r \in mine}
             points == qry.result[t]
         IN /\ Len(points) = Cardinality(starts)
            /\ \A i \in 1..Len(points) :
                 LET bucket == {r \in mine :
                                  BucketStart(qry.aggregate, r.ts) = points[i].timestamp}
                 IN /\ points[i].timestamp \in starts
                    /\ points[i].value = SumValue(bucket)
                    /\ \A r \in bucket : r.quality <= points[i].quality
                    /\ \E r \in bucket : r.quality = points[i].quality
            /\ \A i \in 1..(Len(points) - 1) :
                 points[i].timestamp < points[i + 1].timestamp

\* ------------------------------------------------------------------ C13
\* a literal with a date and a time of day, the forms the query parses
DateTimeForm(literal) == literal.form \in {"T", "space"}

\* C13 as stated, with start and end given as dates or as dates and times:
\* a query whose start is after its end is rejected with the range-order
\* error without a store read.
C13_AsStated ==
  (/\ qry.pc # "idle"
   /\ qry.start.form # "none" /\ qry.end.form # "none"
   /\ qry.start.t > qry.end.t) =>
    (qry.pc = "error" /\ qry.err = RangeOrderMessage /\ qry.reads = 0)

\* C13: a query whose start and end both carry a date and a time and whose
\* start is after its end is rejected with the range-order error without a
\* store read; a start or end that is a date without a time is rejected as
\* an invalid time, also without a store read; start equal to end passes
\* the comparison and the store is read.
C13_RangeOrder ==
  qry.pc # "idle" =>
    /\ (DateTimeForm(qry.start) /\ DateTimeForm(qry.end) /\ qry.start.t > qry.end.t) =>
         (/\ qry.pc = "error" /\ qry.err = RangeOrderMessage
          /\ qry.reads = 0 /\ qry.result = <<>>)
    /\ (qry.start.form = "date") =>
         (qry.pc = "error" /\ qry.err = "invalid start time" /\ qry.reads = 0)
    /\ (DateTimeForm(qry.start) /\ qry.end.form = "date") =>
         (qry.pc = "error" /\ qry.err = "invalid end time" /\ qry.reads = 0)
    /\ (DateTimeForm(qry.start) /\ DateTimeForm(qry.end) /\ qry.start.t = qry.end.t) =>
         (qry.err \in {"", "failed to query database"} /\ qry.reads = 1)

\* a query with a start one month after its end, over a store with rows
C13_Witness ==
  /\ qry.pc = "error" /\ qry.err = RangeOrderMessage
  /\ DateTimeForm(qry.start) /\ DateTimeForm(qry.end)
  /\ qry.start.t > qry.end.t
  /\ rows # {}

\* ------------------------------------------------------------------ C14
\* the rows the merge rule leaves once the loaded feed has been ingested
Ingested == MergedFile(ld.pre, ld.file, Len(ld.file))

\* the timestamps the loaded feed carries for a tag
FeedTimes(t) ==
  {Parsed(ld.file[i].ts) : i \in {k \in DOMAIN ld.file : ld.file[k].tag = t}}

\* a raw query for every tag, made after the load has returned success, over
\* a window that covers every timestamp of the feed
AfterIngest ==
  /\ qry.pc = "done" /\ qry.after = "done"
  /\ qry.aggregate \in {"", "raw"} /\ qry.tags = <<>>
  /\ \A i \in DOMAIN ld.file :
       QueryStart <= Parsed(ld.file[i].ts) /\ Parsed(ld.file[i].ts) <= QueryEnd

\* C14: after a feed has been ingested, a raw query over a range covering it
\* returns, for each tag of the feed and each distinct ingested timestamp,
\* exactly one point whose timestamp equals the ingested one and whose value
\* and quality are those the merge rule leaves; each tag's points are in
\* ascending timestamp order.
C14_RoundTrip ==
  AfterIngest =>
    \A t \in {ld.file[i].tag : i \in DOMAIN ld.file} :
      /\ t \in DOMAIN qry.result
      /\ \A ts \in FeedTimes(t) :
           \E r \in Lookup(Ingested, t, ts) :
             \E k \in DOMAIN qry.result[t] :
               /\ qry.result[t][k] = OutPoint(ts, r.value, r.quality)
               /\ \A j \in DOMAIN qry.result[t] :
                    qry.result[t][j].timestamp = ts => j = k
      /\ \A k \in 1..(Len(qry.result[t]) - 1) :
           qry.result[t][k].timestamp <= qry.result[t][k + 1].timestamp

\* ------------------------------------------------------------------ C15
\* every tag that holds a stored sample has a row in the tag registry
SamplesRegistered == \A r \in rows : r.tag \in TagNames(tags)

\* C15: every tag holding at least one sample has a tag row, and every
\* writer registers the tags it writes: no step of the program leads from a
\* state where every stored sample's tag is registered to one where a stored
\* sample's tag is not.
C15_TagInvariant == [][SamplesRegistered => SamplesRegistered']_vars

\* ------------------------------------------------------------------ C16
\* a step of the CSV import that registers the next tag of the header
RegisterStep == csv.pc = "register" /\ csv'.k = csv.k + 1

\* C16: registering a tag if absent never changes a row that exists (its
\* source, created_at and updated_at stay) and inserts exactly one row, with
\* the caller's source and clock reading, for a name that is absent;
\* registering a name a second time changes nothing.
C16_RegisterIfAbsent ==
  /\ [][RegisterStep =>
          LET name == csv.header[csv.k] IN
          IF name \in TagNames(tags)
          THEN tags' = tags
          ELSE /\ tags' = tags \cup {TagRow(name, csv.now, csv.now, "upload")}
               /\ Cardinality(tags') = Cardinality(tags) + 1]_vars
  /\ [](\A name \in Tags, first \in Nows, second \in Nows :
          LET once == InsertTagIfNotExists(tags, name, first, first, "upload")
          IN InsertTagIfNotExists(once, name, second, second, "upload") = once)

\* an import has registered A and B: A's row, older than the import and from
\* another source, is as it was and B's row is new
C16_Witness ==
  /\ csv.pc = "done" /\ csv.header = <<"A", "B">> /\ csv.now = 2
  /\ TagRow("A", 0, 0, "custom") \in tags
  /\ TagRow("B", 2, 2, "upload") \in tags
  /\ Cardinality(tags) = 2

\* ------------------------------------------------------------------ C17
\* the rows of a registry, and the samples of a store, that belong to other
\* tags than t
OtherTags(T, t) == {x \in T : x.tag # t}
OtherSamples(S, t) == {r \in S : r.tag # t}

\* C17: when Delete(name) returns success there is no tag row and no sample
\* for name, and the rows and samples of the other tags are as they were:
\* its first statement removes the samples of name and nothing else, its
\* second the tag row of name and nothing else, and no sample of name is
\* stored between the two.
C17_DeleteRemoves ==
  /\ [][(dt.pc = "idle" /\ dt'.pc = "tag") =>
          /\ \A r \in rows' : r.tag # dt'.tag
          /\ OtherSamples(rows', dt'.tag) = OtherSamples(rows, dt'.tag)
          /\ tags' = tags]_vars
  /\ [][(dt.pc = "tag" /\ dt'.pc = "done") =>
          /\ dt'.tag \notin TagNames(tags')
          /\ \A r \in rows' : r.tag # dt'.tag
          /\ OtherTags(tags', dt'.tag) = OtherTags(tags, dt'.tag)
          /\ rows' = rows]_vars

\* A was registered by an import, had samples, and has been deleted; B keeps
\* its sample and its tag row
C17_Witness ==
  /\ dt.pc = "done" /\ dt.tag = "A"
  /\ csv.pc = "done" /\ csv.header = <<"A">>
  /\ "A" \notin TagNames(tags)
  /\ rows = {r \in SeedRows : r.tag = "B"}
  /\ TagRow("B", 0, 0, "upload") \in tags

\* ------------------------------------------------------------------ C18
\* the source a created row carries
GivenSource == IF ct'.source = "" THEN "custom" ELSE ct'.source

\* C18: Create on a name that has a row fails, as a duplicate (409) unless
\* the store itself fails (500), and leaves the registry unchanged; Create on
\* an absent name that succeeds inserts exactly one row, with the given
\* source or "custom" when none is given.
C18_CreateTag ==
  [][(ct.pc = "idle" /\ ct'.pc = "done" /\ ct'.tag # "") =>
       IF ct'.tag \in TagNames(tags)
       THEN ct'.status \in {409, 500} /\ tags' = tags
       ELSE /\ ct'.status \in {201, 500}
            /\ ct'.status = 500 => tags' = tags
            /\ ct'.status = 201 =>
                 /\ tags \subseteq tags'
                 /\ Cardinality(tags' \ tags) = 1
                 /\ \A x \in tags' \ tags : x.tag = ct'.tag /\ x.source = GivenSource]_vars

\* a Create of A with another source was answered 409 and A's row is as it was
C18_Witness ==
  /\ ct.pc = "done" /\ ct.tag = "A" /\ ct.source = "import" /\ ct.status = 409
  /\ TagRow("A", 0, 0, "custom") \in tags

\* ------------------------------------------------------------------ C19
\* the request of run g1 names a single tag that has no row in the registry
AbsentTagRequest ==
  /\ gen["g1"].pc # "idle"
  /\ gen["g1"].tag # ""
  /\ gen["g1"].tag \notin TagNames(tags)

\* C19: a generate request for a single tag that is absent from the registry
\* fails with the tag-not-found error, which names the tag, and has no effect
\* on storage: nothing is deleted, nothing is written, the stored rows are
\* those from before the request.  (When the request is also malformed in
\* its value or time range it fails for that reason, equally without effect.)
C19_TagNotFound ==
  LET g == gen["g1"]
      h == gh["g1"]
  IN AbsentTagRequest =>
       /\ g.pc \in {"rejected", "validating", "error"}
       /\ h.deletes = 0 /\ Written("g1") = {} /\ rows = h.pre /\ txn["g1"] = NoTx
       /\ (g.pc = "error" /\ ~BadRequest(g) /\ Parses(g.start) /\ Parses(g.end)) =>
            /\ events["g1"] # <<>>
            /\ events["g1"][Len(events["g1"])] = ErrorEvent(TagNotFound(g.tag))

\* a request for B has failed while the registry holds A only and the store
\* holds rows of A and B
C19_Witness ==
  /\ gen["g1"].pc = "error" /\ gen["g1"].tag = "B"
  /\ TagNames(tags) = {"A"}
  /\ rows = SeedRows
  /\ events["g1"] = <<ErrorEvent("tag 'B' not found in tag list")>>

\* ------------------------------------------------------------------ C20
\* C20: Delete(name) for a name that has no row in the registry is rejected
\* and changes neither the registry nor the stored samples: its first step
\* does not go on to the delete statements and leaves rows and tags as they
\* were.
C20_DeleteUnregistered ==
  [][(dt.pc = "idle" /\ dt'.pc # "idle" /\ dt'.tag # ""
      /\ dt'.tag \notin TagNames(tags)) =>
       /\ dt'.pc \notin {"tag", "done"}
       /\ rows' = rows
       /\ tags' = tags]_vars

\* ------------------------------------------------------------------ C21
\* an override import has committed
OverrideCommitted == csv.pc \in {"register", "done"} /\ csv.mode = "override"

\* the last data row of the imported file with timestamp ts
LastRowAt(ts) ==
  CHOOSE i \in DOMAIN csv.data :
    /\ Parsed(csv.data[i].ts) = ts
    /\ \A j \in DOMAIN csv.data : Parsed(csv.data[j].ts) = ts => j <= i

EverCommitted ==
  (IF gen["g1"].pc = "idle" THEN rows ELSE gh["g1"].pre) \cup gh["g1"].committed

\* C22: a query that runs during a generate run never returns a row of a
\* batch that has not been committed: every point of its result is a row
\* that was stored before the run or belongs to a batch the run has committed.
C22_NoDirtyRead ==
  qry.pc = "done" =>
    \A t \in DOMAIN qry.result : \A i \in DOMAIN qry.result[t] :
      \E r \in EverCommitted :
        /\ r.tag = t
        /\ SecondText(r.ts) = qry.result[t][i].timestamp
        /\ r.value = qry.result[t][i].value
        /\ r.quality = qry.result[t][i].quality

\* the run is not isolated from readers: while it is still generating with
\* rows of an open batch not yet committed, a query has found none of the
\* rows stored before the run and, for A, the first ticks of the run but not
\* all of them
C22_Witness ==
  LET g == gen["g1"]
      h == gh["g1"]
  IN /\ qry.pc = "done" /\ qry.tags = <<>>
     /\ g.pc \in {"tick", "commit"} /\ h.deletes = 1 /\ h.batch # {}
     /\ h.pre = SeedRows /\ qry.seen \cap h.pre = {}
     /\ "A" \in DOMAIN qry.result
     /\ Len(qry.result["A"]) < g.totalMinutes
     /\ \A i \in DOMAIN qry.result["A"] :
          /\ qry.result["A"][i].timestamp = g.startTime + (i - 1) * TimeGrain
          /\ qry.result["A"][i].quality = GenQuality

\* ------------------------------------------------------------------ C23
\* the run has ended, or its request was turned down before it started
Ended == gen["g1"].pc \in {"done", "error", "rejected"}

\* C23: under fair scheduling every started run ends in done or error, also
\* when its caller has gone away after the start; and a run that ends in
\* done after its caller went away has written every tick of every tag.
C23_RunsToTheEnd ==
  /\ (gen["g1"].pc # "idle") ~> Ended
  /\ (gen["g1"].pc # "idle" /\ ~Listening("g1")) ~> Ended
  /\ [](gen["g1"].pc = "done" /\ ~Listening("g1") =>
          \A i \in 1..Len(gen["g1"].tagList) :
            {x.ts : x \in RowsOf(rows, gen["g1"].tagList[i])} = TickTimes(gen["g1"]))

\* a run is done whose caller went away before its last rows were written
C23_Witness ==
  /\ gen["g1"].pc = "done"
  /\ gh["g1"].goneAt >= 0
  /\ gh["g1"].goneAt < gen["g1"].totalRecords
  /\ Len(events["g1"]) >= 2

\* ------------------------------------------------------------------ C24
\* run r applies a tick in this step (and does not fail on it)
TickStep(r) ==
  /\ gen[r].pc = "tick" /\ gen'[r] # gen[r]
  /\ gen'[r].pc \in {"tick", "commit", "final"}

\* the sample run r finds at the tick it is about to apply, and the one its
\* transaction holds there after the step
FoundAtTick(r) ==
  Lookup(TxView(r), gen[r].tagList[gen[r].ti],
         gen[r].startTime + gen[r].minute * TimeGrain)
LeftAtTick(r) ==
  Lookup(TxView(r)', gen[r].tagList[gen[r].ti],
         gen[r].startTime + gen[r].minute * TimeGrain)

\* C24: the generator applies the merge rule at every tick: a sample found
\* at (tag, tick) with quality above the generator's quality 3 is left as it
\* is and the tick is not counted; one with quality 3 or less is overwritten
\* with a value of the run and quality 3 and the tick is counted; when none
\* is found the tick is inserted with quality 3 and counted.
C24_MergeAtTick ==
  [][\A r \in Runs : TickStep(r) =>
       IF \E e \in FoundAtTick(r) : e.quality > GenQuality
       THEN /\ LeftAtTick(r) = FoundAtTick(r)
            /\ gen'[r].totalRecords = gen[r].totalRecords
       ELSE /\ Cardinality(LeftAtTick(r)) = 1
            /\ \A x \in LeftAtTick(r) :
                 /\ x.quality = GenQuality
                 /\ gen[r].minValue <= x.value /\ x.value <= gen[r].maxValue
            /\ gen'[r].totalRecords = gen[r].totalRecords + 1]_vars

\* run g1 has deleted, the feed loader has then stored A's sample of quality
\* 4 at the run's tick, and the run has skipped that tick and ended
C24_Witness ==
  /\ gen["g1"].pc = "done" /\ gh["g1"].deletes = 1
  /\ gh["g1"].skipped = 1 /\ gen["g1"].totalRecords = 0
  /\ ld.pc = "done"
  /\ Row("A", 0, 9, 4) \in rows

\* C25: a commit other than the final one happens only when exactly BatchSize
\* rows have been written since the previous commit (or since the start of
\* the run), also in a run whose merge rule discards ticks: no intermediate
\* batch is empty or short.
C25_FixedBatches ==
  [][\A r \in Runs :
       (gen[r].pc = "commit" /\ gen'[r].pc = "rebegin") =>
         Cardinality(gh[r].batch) = BatchSize
    ]_vars

\* the value a tick step of run r has left at its key
ValueAtTick(r) == CHOOSE v \in {e.value : e \in LeftAtTick(r)} : TRUE

\* the value stored at the tick before the one run r is at
PreviousStored(r) ==
  CHOOSE v \in {e.value : e \in Lookup(TxView(r), gen[r].tagList[gen[r].ti],
                                       gen[r].startTime + (gen[r].minute - LoopStep(gen[r])) * TimeGrain)} : TRUE

\* the values one step of the walk reaches from c, pinned to [lo, hi]
WalkFrom(c, lo, hi) ==
  {IF n < lo THEN lo ELSE IF n > hi THEN hi ELSE n :
     n \in {m \in ValueGrid : 7 * c <= 10 * m /\ 10 * m <= 13 * c}}

C27_NoOpenTransaction ==
  \A r \in Runs : gen[r].pc \in {"done", "error"} => txn[r] = NoTx

\* the tag_complete notifications run r has emitted
TagCompletes(r) ==
  {events[r][i] : i \in {j \in 1..Len(events[r]) : events[r][j].event = "tag_complete"}}

\* C28 as stated: once the tag_complete of a tag is emitted every row counted
\* in it is committed, so the store never holds fewer rows of the run for
\* that tag than the notification reported, whatever fails afterwards.
C28_AsStated ==
  \A r \in Runs : \A e \in TagCompletes(r) :
    Cardinality(RowsOf(rows \cap Written(r), e.tag)) >= e.records

\* C28: a tag_complete counts exactly the rows the run has written for the
\* tag inside its transactions; those of committed batches are stored, those
\* of the batch still open are in the run's open transaction and not stored
\* yet; once the run has ended in done all of them are stored, once it has
\* ended in an error the ones of the open batch are not.
C28_ReportedRows ==
  \A r \in Runs : \A e \in TagCompletes(r) :
    /\ e.records = Cardinality(RowsOf(Written(r), e.tag))
    /\ RowsOf(gh[r].committed, e.tag) \subseteq rows
    /\ RowsOf(gh[r].batch, e.tag) \subseteq TxView(r)
    /\ gen[r].pc = "done" => RowsOf(Written(r), e.tag) \subseteq rows
    /\ gen[r].pc = "error" => RowsOf(gh[r].lost, e.tag) \cap rows = {}

\* a run has committed a batch, reported tag A complete with more rows than
\* that batch held, and then failed: the store holds fewer rows of A than
\* the notification reported
C28_Witness ==
  /\ gen["g1"].pc = "error"
  /\ gh["g1"].batches >= 1
  /\ \E e \in TagCompletes("g1") :
       /\ e.tag = "A"
       /\ e.records > Cardinality(RowsOf(rows, "A"))
       /\ RowsOf(rows, "A") # {}

\* C29: whenever two all-tags runs over the same time range and interval
\* have both ended in done, every registered tag holds exactly one row at
\* every tick of the range.
C29_BothDone ==
  (gen["g1"].pc = "done" /\ gen["g2"].pc = "done") =>
    \A t \in TagNames(tags) : \A ts \in TickTimes(gen["g1"]) :
      Cardinality(Lookup(rows, t, ts)) = 1

\* the runs were not mutually excluded: the delete of the second run removed
\* rows the first had committed, the first run went on generating after it,
\* and both have ended in done with rows of both in the store
C29_Witness ==
  /\ gen["g1"].pc = "done" /\ gen["g2"].pc = "done"
  /\ gh["g2"].undone # {}
  /\ \E x \in rows : x.value <= 5
  /\ \E x \in rows : x.value >= 6

\* the rows of a CSV file: one per data row with a timestamp and header tag
FileRows ==
  {Row(csv.header[k], Parsed(csv.data[i].ts), csv.data[i].value, importQuality) :
     <<i, k>> \in {p \in (1..Len(csv.data)) \X (1..Len(csv.header)) :
                     Parses(csv.data[p[1]].ts)}}

\* C30: an import, in replace mode and in override mode, that fails at a data
\* row or at a statement of its transaction (the delete, an insert, the
\* commit) has no partial effect: once ImportFromCSV has returned the error,
\* the stored rows are those from before the import, every row of the
\* header's tags included, no row of the file is stored and the transaction
\* is over.
C30_ImportAtomic ==
  (csv.pc = "error" /\ csv.at \in {"delete", "insert", "commit"}) =>
    /\ rows = csv.pre
    /\ FileRows \cap rows = {}
    /\ txn["csv"] = NoTx

\* a replace-mode import over stored rows of its tags failed at its second
\* data row, after the delete and the insert of the first row
C30_Witness ==
  /\ csv.pc = "error" /\ csv.at = "insert"
  /\ csv.mode = "replace"
  /\ csv.i = 2
  /\ RowsOf(csv.pre, "A") # {}
  /\ RowsOf(rows, "A") = RowsOf(csv.pre, "A")

====
